---- MODULE Spec2Model ----
(***************************************************************************)
(* A model of three components of ploomber:                                *)
(*   - the interactive callable-to-notebook editor                         *)
(*     (src/src/ploomber/sources/interact.py),                             *)
(*   - the declarative DAG builder (src/src/ploomber/dag/DAGSpec.py),      *)
(*   - the declarative task builder (src/src/ploomber/spec/TaskDict.py).   *)
(*                                                                         *)
(* Text (file contents, cell sources, lines) is a sequence of one-character *)
(* strings, so that slicing, splitting and joining are computed as Python  *)
(* computes them.  Paths and names handled by the builders are sequences   *)
(* of atoms: "." and "/" are the separators, every other atom stands for a *)
(* run of characters holding neither.                                      *)
(***************************************************************************)
EXTENDS Integers, Sequences, FiniteSets, TLC

VARIABLES
    \* ---- step-class resolution (get_task_class of both builders) ----
    cls_task,    \* the task mapping given to get_task_class
    cls_dag,     \* what DAGSpec.get_task_class did with it, NotCalled before
    cls_td,      \* what TaskDict.get_task_class did with it, NotCalled before
    \* ---- DAG builder (DAGSpec.py) ----
    dg_given,     \* the specification as given to init_dag
    dg_pc,        \* where init_dag is: "idle", "start", "clients", "infer",
                  \* "tasks", "wire", "done", "raised"
    dag_spec,     \* the DAGSpec, once its tasks are popped
    dg_tasks,     \* tasks, each mapping consumed by init_task
    dg_extracted, \* what the static analysis returned
    dg_i,         \* position of the first loop of process_tasks
    dg_j,         \* position of the second loop of process_tasks
    dg_steps,     \* dag: the steps by name
    dg_order,     \* the names in the order of dag.values()
    dg_upstream,  \* upstream: the identifiers remembered for each step
    dg_edges,     \* the pairs (step, dependency) set by set_upstream
    dg_clients,   \* dag.clients
    dg_out,       \* the exception raised, or what init_dag returned
    \* ---- task builder (TaskDict.py) ----
    td_given,    \* the task mapping as given to TaskDict(data, meta)
    td_data,     \* self.data, consumed by to_task
    td_meta,     \* self.meta
    td_state,    \* "idle", "new", "constructed", "invalid", "materialized", "failed"
    td_out,      \* the exception raised, or what to_task returned
    td_called,   \* self.data as it was when to_task was last called
    td_edits,    \* how many times self.data was changed through the mapping
    \* ---- editor (interact.py) ----
    module,      \* the layout of the source file the callable is defined in
    fs_source,   \* text of the file at path_to_source
    fs_tmp,      \* the notebook at tmp_path: [exists, cells]
    s_state,     \* per session object: "none", "constructed", "entered", "exited", "failed"
    s_alive,     \* per session object: TRUE until __del__ has run
    s_limits,    \* per session object: self.lines_num_limits
    s_body_start,\* per session object: self.body_start (NoneInt for None)
    s_snapshot,  \* per session object: self._source_code (NoneText for None)
    s_error,     \* per session object: the exception __exit__ raised, "" for none
    s_wrote,     \* per session object: TRUE once it has called path_to_source.write_text
    nb_edits,    \* number of edits the user made to the notebook
    ext_modified \* TRUE while the source file carries an external modification

\* the variables of the other components
dgVars == <<dg_given, dg_pc, dag_spec, dg_tasks, dg_extracted, dg_i, dg_j,
            dg_steps, dg_order, dg_upstream, dg_edges, dg_clients, dg_out>>

notEdVars == <<cls_task, cls_dag, cls_td, td_given, td_data, td_meta, td_state,
               td_out, td_called, td_edits, dgVars>>
notTdVars == <<cls_task, cls_dag, cls_td, module, fs_source, fs_tmp, s_state,
               s_alive, s_limits, s_body_start, s_snapshot, s_error, s_wrote,
               nb_edits, ext_modified, dgVars>>
notDgVars == <<cls_task, cls_dag, cls_td, td_given, td_data, td_meta, td_state,
               td_out, td_called, td_edits, module, fs_source, fs_tmp, s_state, s_alive, s_limits,
               s_body_start, s_snapshot, s_error, s_wrote, nb_edits,
               ext_modified>>
notClsVars == <<dgVars, td_given, td_data, td_meta, td_state, td_out, td_called,
                td_edits, module, fs_source, fs_tmp, s_state, s_alive, s_limits,
                s_body_start, s_snapshot, s_error, s_wrote, nb_edits,
                ext_modified>>

edVars == <<module, fs_source, fs_tmp, s_state, s_alive, s_limits, s_body_start,
            s_snapshot, s_error, s_wrote, nb_edits, ext_modified>>

clsVars == <<cls_task, cls_dag, cls_td>>

tdVars == <<td_given, td_data, td_meta, td_state, td_out, td_called, td_edits>>

vars == <<edVars, clsVars, tdVars, dgVars>>

-----------------------------------------------------------------------------
(* Bounds *)

\* The number of edits the user makes to the notebook during one session.
MaxEdits == 1

\* The number of atoms of a source path given to get_task_class.
MaxPathLen == 3
MaxMutations == 1

-----------------------------------------------------------------------------
(* Python string operations on text *)

NL == "\n"

Whitespace == {" ", NL}

Min(a, b) == IF a < b THEN a ELSE b

\* t[n:]
DropChars(t, n) == SubSeq(t, n + 1, Len(t))

\* t[:n]
TakeChars(t, n) == SubSeq(t, 1, Min(n, Len(t)))

\* seq[:n] and seq[n:] on a list of lines
TakeLines(ls, n) == SubSeq(ls, 1, Min(n, Len(ls)))
DropLines(ls, n) == SubSeq(ls, n + 1, Len(ls))

\* index of the first x in t, 0 if there is none
FirstIndex(t, x) ==
    IF \E i \in 1..Len(t) : t[i] = x
    THEN CHOOSE i \in 1..Len(t) : t[i] = x /\ \A j \in 1..(i - 1) : t[j] # x
    ELSE 0

\* index of the last x in t, 0 if there is none (1 + str.rfind)
LastIndex(t, x) ==
    IF \E i \in 1..Len(t) : t[i] = x
    THEN CHOOSE i \in 1..Len(t) : t[i] = x /\ \A j \in (i + 1)..Len(t) : t[j] # x
    ELSE 0

\* t.split(sep)
RECURSIVE SplitOn(_, _)
SplitOn(t, sep) ==
    LET i == FirstIndex(t, sep)
    IN  IF i = 0 THEN <<t>>
        ELSE <<SubSeq(t, 1, i - 1)>> \o SplitOn(DropChars(t, i), sep)

\* t.split('\n')
Split(t) == SplitOn(t, NL)

\* t.splitlines(): like split, but a final empty piece is no line
SplitLines(t) ==
    LET p == Split(t)
    IN  IF p[Len(p)] = <<>> THEN SubSeq(p, 1, Len(p) - 1) ELSE p

\* '\n'.join(ls)
RECURSIVE Join(_)
Join(ls) ==
    IF Len(ls) = 0 THEN <<>>
    ELSE IF Len(ls) = 1 THEN ls[1]
    ELSE ls[1] \o <<NL>> \o Join(Tail(ls))

\* t.rstrip()
RECURSIVE RStrip(_)
RStrip(t) ==
    IF Len(t) > 0 /\ t[Len(t)] \in Whitespace
    THEN RStrip(SubSeq(t, 1, Len(t) - 1))
    ELSE t

\* t.startswith('#')
StartsWithHash(t) == Len(t) > 0 /\ t[1] = "#"

\* content[-1] == '\n' (the files of the model are never empty)
EndsWithNewline(t) == Len(t) > 0 /\ t[Len(t)] = NL

\* concatenation of a list of sequences
RECURSIVE Concat(_)
Concat(ts) == IF Len(ts) = 0 THEN <<>> ELSE ts[1] \o Concat(Tail(ts))

\* [f(x) for x in seq if p(x)] keeps order: the indices selected from seq
RECURSIVE SelectIdx(_, _)
SelectIdx(n, keep) ==
    IF n = 0 THEN <<>>
    ELSE SelectIdx(n - 1, keep) \o (IF n \in keep THEN <<n>> ELSE <<>>)

-----------------------------------------------------------------------------
(* Source text used by the layouts *)

ImportOs == <<"i", "m", "p", "o", "r", "t", " ", "o", "s">>
DefOneLine == <<"d", "e", "f", " ", "f", "(", ")", ":">>
DefOpen == <<"d", "e", "f", " ", "f", "(">>
DefClose == <<")", ":">>
\* body statements as parso returns them: prefix (blank and comment lines,
\* indentation) included, through the statement's newline
StmtX == <<" ", " ", " ", " ", "x", "=", "1", "\n">>
StmtCommentY ==
    <<" ", " ", " ", " ", "#", " ", "c", "\n",
      " ", " ", " ", " ", "y", "=", "2", "\n">>
StmtHashX ==
    <<" ", " ", " ", " ", "#", "\n", " ", " ", " ", " ", "x", "=", "1", "\n">>
LineY == <<"y", "=", "2">>

FnName == <<"f">>
ModuleName == <<"m">>
FromKw == <<"f", "r", "o", "m", " ">>
ImportKw == <<"i", "m", "p", "o", "r", "t", " ">>
CommaSpace == <<",", " ">>
Indent == <<" ", " ", " ", " ">>
\* the line an external program appends to the source file
ExtLine == <<"#", "e", "\n">>

\* None, for a text and for an integer attribute
NoneText == <<"None">>
NoneInt == -1

-----------------------------------------------------------------------------
(* The source file: its layout, its text, and what inspect and parso      *)
(* report about the callable f defined in it.                              *)
(*   pre      the lines before the definition                              *)
(*   sig      the lines of the signature, through the one holding ":"      *)
(*   stmts    the top-level statements of the body, 4-space indented       *)
(*   post     the lines after the last line of the definition              *)
(*   trailing whether the file ends with a newline                         *)

Pres == {<<>>, <<ImportOs>>}
Sigs == {<<DefOneLine>>, <<DefOpen, DefClose>>}
Bodies == {<<StmtX, StmtCommentY>>, <<StmtHashX>>}
Posts == {<<>>, <<<<>>>>, <<<<>>, <<>>>>, <<LineY>>, <<<<>>, LineY>>,
          <<<<>>, <<>>, LineY>>}

FnLines(m) == m.sig \o SplitLines(Concat(m.stmts))

FileLines(m) == m.pre \o FnLines(m) \o m.post

Render(m) == Join(FileLines(m)) \o (IF m.trailing THEN <<NL>> ELSE <<>>)

\* A file whose last line is empty ends with a newline.
Layouts ==
    {m \in [pre : Pres, sig : Sigs, stmts : Bodies, post : Posts,
             trailing : BOOLEAN] :
        FileLines(m)[Len(FileLines(m))] = <<>> => m.trailing}

\* A source file that defines two callables, f and after it g, as the layout
\* of f: g and the blank lines before it are the lines after f
GName == <<"g">>
DefG == <<"d", "e", "f", " ", "g", "(", ")", ":">>
StmtZ == <<" ", " ", " ", " ", "z", "=", "3", "\n">>
Gaps == {<<<<>>>>, <<<<>>, <<>>>>}

TwoCallables(pre, fstmts, gap, gstmts, trailing) ==
    [pre |-> pre, sig |-> <<DefOneLine>>, stmts |-> fstmts,
     post |-> gap \o <<DefG>> \o SplitLines(Concat(gstmts)),
     trailing |-> trailing, name |-> FnName, names |-> <<FnName, GName>>,
     second |-> [gap |-> gap, sig |-> <<DefG>>, stmts |-> gstmts]]

TwoLayouts ==
    {TwoCallables(pre, fstmts, gap, gstmts, trailing) :
        pre \in Pres, fstmts \in {<<StmtX>>, <<StmtX, StmtCommentY>>}, gap \in Gaps,
        gstmts \in {<<StmtZ>>, <<StmtX, StmtCommentY>>}, trailing \in BOOLEAN}

\* the same file as the layout of g
SecondCallable(m) ==
    [pre |-> m.pre \o FnLines(m) \o m.second.gap, sig |-> m.second.sig,
     stmts |-> m.second.stmts, post |-> <<>>, trailing |-> m.trailing,
     name |-> GName, names |-> m.names]

\* inspect.getsourcelines(fn): the lines of the definition and the 1-based
\* number of its first line
getsourcelines(m) == [lines |-> FnLines(m), start |-> Len(m.pre) + 1]

\* __init__: self.lines_num_limits
lines_num_limits(m) ==
    LET g == getsourcelines(m)
    IN  <<g.start, g.start + Len(g.lines)>>

\* fn.__name__: f, unless the layout names its callable
NameOf(m) == IF "name" \in DOMAIN m THEN m.name ELSE FnName

\* get_func_and_class_names(module): the callable is the only definition,
\* unless the layout names the definitions of the file
get_func_and_class_names(m) == IF "names" \in DOMAIN m THEN m.names ELSE <<FnName>>

IsImportLine(l) == TakeChars(l, Len(ImportKw)) = ImportKw

\* ', '.join(names)
RECURSIVE JoinComma(_)
JoinComma(ns) ==
    IF Len(ns) = 0 THEN <<>>
    ELSE IF Len(ns) = 1 THEN ns[1]
    ELSE ns[1] \o CommaSpace \o JoinComma(Tail(ns))

make_import_from_definitions(m) ==
    LET IsOther(n) == n # NameOf(m)
        names == SelectSeq(get_func_and_class_names(m), IsOther)
    IN  FromKw \o ModuleName \o <<" ">> \o ImportKw \o JoinComma(names)

\* parse_function(fn): the body's statements as parsed from the stripped
\* source of the callable (the last one ends without its newline), the
\* 0-based offset of the signature's last line within the definition, the
\* imports cell
parse_function(m) ==
    [body_elements |-> [i \in 1..Len(m.stmts) |->
                            IF i = Len(m.stmts) THEN RStrip(m.stmts[i])
                            ELSE m.stmts[i]],
     body_start |-> Len(m.sig) - 1,
     imports_cell |-> Join(SelectSeq(m.pre \o m.post, IsImportLine))
                      \o <<NL>> \o make_import_from_definitions(m)]

-----------------------------------------------------------------------------
(* The notebook *)

imports_new_comment ==
    <<"#", " ", "U", "s", "e", " ", "t", "h", "i", "s", " ", "c", "e",
      "l", "l", " ", "t", "o", " ", "i", "n", "c", "l", "u", "d", "e",
      " ", "a", "n", "y", " ", "i", "m", "p", "o", "r", "t", "s", " ",
      "t", "h", "a", "t", " ", "y", "o", "u", " ", "w", "a", "n", "t",
      " ", "t", "o", " ", "s", "a", "v", "e", " ", "b", "a", "c", "k",
      "\n", "#", " ", "t", "o", " ", "t", "h", "e", " ", "t", "o", "p",
      " ", "o", "f", " ", "t", "h", "e", " ", "m", "o", "d", "u", "l",
      "e", ",", " ", "c", "o", "m", "m", "e", "n", "t", "s", " ", "w",
      "i", "l", "l", " ", "b", "e", " ", "i", "g", "n", "o", "r", "e",
      "d">>

\* the cell papermill injects for params = {'p': 1}
ParamsSource ==
    <<"#", " ", "P", "a", "r", "a", "m", "e", "t", "e", "r", "s", "\n",
      "p", " ", "=", " ", "1", "\n">>

Cell(type, tags, source) == [cell_type |-> type, tags |-> tags, source |-> source]

\* one statement's code, de-indented by four characters per line
StatementToCell(code) ==
    LET ls == Split(RStrip(code))
    IN  Join([i \in 1..Len(ls) |-> DropChars(ls[i], 4)])

function_to_nb(body_elements, imports_cell) ==
    <<Cell("code", {"imports"}, imports_cell),
      Cell("code", {"imports-new"}, imports_new_comment)>>
    \o [i \in 1..Len(body_elements) |->
           Cell("code", {}, StatementToCell(body_elements[i]))]

\* papermill.execute_notebook(..., prepare_only=True, parameters=params):
\* one new leading cell carrying the parameters
execute_notebook(nb) ==
    <<Cell("code", {"injected-parameters"}, ParamsSource)>> \o nb

\* _to_nb: the notebook written to tmp_path
to_nb(m) ==
    LET p == parse_function(m)
    IN  execute_notebook(function_to_nb(p.body_elements, p.imports_cell))

tmp_tags == {"injected-parameters", "imports", "imports-new"}

\* keep_cell dropping every cell whose first line starts with "#"
keep_cell_drops_comments(cell) ==
    /\ cell.cell_type = "code"
    /\ cell.tags \cap tmp_tags = {}
    /\ ~StartsWithHash(cell.source)

keep_cell(cell) ==
    /\ cell.cell_type = "code"
    /\ cell.tags \cap tmp_tags = {}
    /\ TakeChars(cell.source, 2) # <<"#", NL>>

indent_line(lline) == IF lline # <<>> THEN Indent \o lline ELSE <<>>

indent_cell(code) ==
    LET ls == SplitLines(code)
    IN  Join([i \in 1..Len(ls) |-> indent_line(ls[i])])

\* get_imports_new_source(nb): NoneText for None
get_imports_new_source(nb) ==
    LET tagged == {i \in 1..Len(nb) : "imports-new" \in nb[i].tags}
    IN  IF tagged = {} THEN NoneText
        ELSE LET first == CHOOSE i \in tagged : \A j \in tagged : i <= j
                 source == nb[first].source
                 NotComment(l) == ~StartsWithHash(l)
                 lines == SelectSeq(SplitLines(source), NotComment)
             IN  IF source # <<>> /\ lines # <<>>
                 THEN Join(lines) \o <<NL>>
                 ELSE NoneText

\* the cells _overwrite_from_nb splices into the body, in document order
code_cells(nb) ==
    LET kept == SelectIdx(Len(nb), {i \in 1..Len(nb) : keep_cell(nb[i])})
    IN  [k \in 1..Len(kept) |-> indent_cell(nb[kept[k]].source)]

\* _overwrite_from_nb: the text written over the source file
overwrite_from_nb(nb, content, limits, body_start) ==
    LET content_lines == SplitLines(content)
        trailing_newline == EndsWithNewline(content)
        fn_starts == limits[1]
        fn_ends == limits[2]
        keep_until == fn_starts + body_start
        header == TakeLines(content_lines, keep_until)
        rest == DropLines(content_lines, fn_ends)
        footer == IF rest # <<>> THEN <<<<>>>> \o rest ELSE rest
        joined == Join(header \o code_cells(nb) \o footer)
        new_content == IF trailing_newline THEN joined \o <<NL>> ELSE joined
        imports_new == get_imports_new_source(nb)
    IN  IF imports_new # NoneText THEN imports_new \o new_content
        ELSE new_content

-----------------------------------------------------------------------------
(* The editor's session objects.  Every session object of this file shares *)
(* the temporary path <stem>-tmp.ipynb.                                    *)

SessionIds == {"A"}

\* two session objects of one source file: A for f, B for g
TwoSessionIds == {"A", "B"}

\* self.fn of a session, as the layout of its callable
ModuleOf(s) == IF s = "B" THEN SecondCallable(module) ELSE module

NoTmp == [exists |-> FALSE, cells |-> <<>>]

\* what the user may write into a cell
UserSources ==
    {<<"z", "=", "3">>,
     <<"#", "\n", "z", "=", "3">>,
     <<"#", " ", "c", "\n", "z", "=", "3">>,
     <<"#">>,
     <<"i", "m", "p", "o", "r", "t", " ", "r", "e", "\n", "#", " ", "c">>}

\* the cells the user may add
UserCells ==
    {Cell("code", {}, src) : src \in UserSources}
    \cup {Cell("markdown", {}, <<"z", "=", "3">>),
          Cell("code", {"other"}, <<"z", "=", "3">>)}

EdInit ==
    /\ module \in Layouts
    /\ fs_source = Render(module)
    /\ fs_tmp = NoTmp
    /\ s_state = [s \in SessionIds |-> "none"]
    /\ s_alive = [s \in SessionIds |-> FALSE]
    /\ s_limits = [s \in SessionIds |-> <<0, 0>>]
    /\ s_body_start = [s \in SessionIds |-> NoneInt]
    /\ s_snapshot = [s \in SessionIds |-> NoneText]
    /\ s_error = [s \in SessionIds |-> ""]
    /\ s_wrote = [s \in SessionIds |-> FALSE]
    /\ nb_edits = 0
    /\ ext_modified = FALSE

\* CallableInteractiveDeveloper(fn, params)
Construct(s) ==
    /\ s_state[s] = "none"
    /\ s_state' = [s_state EXCEPT ![s] = "constructed"]
    /\ s_alive' = [s_alive EXCEPT ![s] = TRUE]
    /\ s_limits' = [s_limits EXCEPT ![s] = lines_num_limits(ModuleOf(s))]
    /\ s_body_start' = [s_body_start EXCEPT ![s] = NoneInt]
    /\ s_snapshot' = [s_snapshot EXCEPT ![s] = NoneText]
    /\ UNCHANGED <<module, fs_source, fs_tmp, s_error, s_wrote, nb_edits,
                   ext_modified>>
    /\ UNCHANGED notEdVars

\* __enter__
Enter(s) ==
    /\ s_state[s] = "constructed"
    /\ s_alive[s]
    /\ s_snapshot' = [s_snapshot EXCEPT ![s] = fs_source]
    /\ s_body_start' = [s_body_start EXCEPT ![s] =
                            parse_function(ModuleOf(s)).body_start]
    /\ fs_tmp' = [exists |-> TRUE, cells |-> to_nb(ModuleOf(s))]
    /\ s_state' = [s_state EXCEPT ![s] = "entered"]
    /\ UNCHANGED <<module, fs_source, s_alive, s_limits, s_error, s_wrote,
                   nb_edits, ext_modified>>
    /\ UNCHANGED notEdVars

\* __exit__
Exit(s) ==
    /\ s_state[s] = "entered"
    /\ s_alive[s]
    /\ IF s_snapshot[s] # fs_source
       THEN /\ s_state' = [s_state EXCEPT ![s] = "failed"]
            /\ s_error' = [s_error EXCEPT ![s] = "ValueError"]
            /\ UNCHANGED <<fs_source, fs_tmp, s_wrote>>
       ELSE IF ~fs_tmp.exists
       THEN /\ s_state' = [s_state EXCEPT ![s] = "failed"]
            /\ s_error' = [s_error EXCEPT ![s] = "FileNotFoundError"]
            /\ UNCHANGED <<fs_source, fs_tmp, s_wrote>>
       ELSE /\ fs_source' = overwrite_from_nb(fs_tmp.cells, fs_source,
                                              s_limits[s], s_body_start[s])
            /\ s_wrote' = [s_wrote EXCEPT ![s] = TRUE]
            /\ fs_tmp' = NoTmp
            /\ s_state' = [s_state EXCEPT ![s] = "exited"]
            /\ UNCHANGED s_error
    /\ UNCHANGED <<module, s_alive, s_limits, s_body_start, s_snapshot,
                   nb_edits, ext_modified>>
    /\ UNCHANGED notEdVars

\* __del__ leaving the notebook in place
Del_keeps_tmp(s) ==
    /\ s_state[s] # "none"
    /\ s_alive[s]
    /\ s_alive' = [s_alive EXCEPT ![s] = FALSE]
    /\ UNCHANGED <<module, fs_source, fs_tmp, s_state, s_limits, s_body_start,
                   s_snapshot, s_error, s_wrote, nb_edits, ext_modified>>
    /\ UNCHANGED notEdVars

\* __del__: the session object is discarded
Del(s) ==
    /\ s_state[s] # "none"
    /\ s_alive[s]
    /\ s_alive' = [s_alive EXCEPT ![s] = FALSE]
    /\ fs_tmp' = IF fs_tmp.exists THEN NoTmp ELSE fs_tmp
    /\ UNCHANGED <<module, fs_source, s_state, s_limits, s_body_start,
                   s_snapshot, s_error, s_wrote, nb_edits, ext_modified>>
    /\ UNCHANGED notEdVars

\* a session is open: entered, not yet exited, its object alive
Open(s) == s_state[s] = "entered" /\ s_alive[s]

CanEdit ==
    /\ \E s \in SessionIds : Open(s)
    /\ fs_tmp.exists
    /\ nb_edits < MaxEdits

InsertAt(seq, i, x) == SubSeq(seq, 1, i) \o <<x>> \o SubSeq(seq, i + 1, Len(seq))

RemoveAt(seq, i) == SubSeq(seq, 1, i - 1) \o SubSeq(seq, i + 1, Len(seq))

\* the user adds a cell to the notebook
InsertCell ==
    /\ CanEdit
    /\ \E i \in 0..Len(fs_tmp.cells), c \in UserCells :
          fs_tmp' = [fs_tmp EXCEPT !.cells = InsertAt(@, i, c)]
    /\ nb_edits' = nb_edits + 1
    /\ UNCHANGED <<module, fs_source, s_state, s_alive, s_limits, s_body_start,
                   s_snapshot, s_error, s_wrote, ext_modified>>
    /\ UNCHANGED notEdVars

\* the user deletes a cell of the notebook
DeleteCell ==
    /\ CanEdit
    /\ \E i \in 1..Len(fs_tmp.cells) :
          fs_tmp' = [fs_tmp EXCEPT !.cells = RemoveAt(@, i)]
    /\ nb_edits' = nb_edits + 1
    /\ UNCHANGED <<module, fs_source, s_state, s_alive, s_limits, s_body_start,
                   s_snapshot, s_error, s_wrote, ext_modified>>
    /\ UNCHANGED notEdVars

\* the user rewrites the source of a cell of the notebook
EditCell ==
    /\ CanEdit
    /\ \E i \in 1..Len(fs_tmp.cells), src \in UserSources :
          /\ fs_tmp.cells[i].source # src
          /\ fs_tmp' = [fs_tmp EXCEPT !.cells[i].source = src]
    /\ nb_edits' = nb_edits + 1
    /\ UNCHANGED <<module, fs_source, s_state, s_alive, s_limits, s_body_start,
                   s_snapshot, s_error, s_wrote, ext_modified>>
    /\ UNCHANGED notEdVars

\* another program appends a line to the source file during a session
ExternalModify ==
    /\ \E s \in SessionIds : Open(s)
    /\ ~ext_modified
    /\ fs_source' = fs_source \o ExtLine
    /\ ext_modified' = TRUE
    /\ UNCHANGED <<module, fs_tmp, s_state, s_alive, s_limits, s_body_start,
                   s_snapshot, s_error, s_wrote, nb_edits>>
    /\ UNCHANGED notEdVars

\* the other program takes its line back
ExternalRevert ==
    /\ \E s \in SessionIds : Open(s)
    /\ ext_modified
    /\ fs_source' = SubSeq(fs_source, 1, Len(fs_source) - Len(ExtLine))
    /\ ext_modified' = FALSE
    /\ UNCHANGED <<module, fs_tmp, s_state, s_alive, s_limits, s_body_start,
                   s_snapshot, s_error, s_wrote, nb_edits>>
    /\ UNCHANGED notEdVars

EdNext ==
    \/ \E s \in SessionIds : Construct(s)
    \/ \E s \in SessionIds : Enter(s)
    \/ \E s \in SessionIds : Exit(s)
    \/ \E s \in SessionIds : Del(s)
    \/ InsertCell
    \/ DeleteCell
    \/ EditCell
    \/ ExternalModify
    \/ ExternalRevert

\* two sessions on one source file, the notebook left as written
TwoNext ==
    \/ \E s \in TwoSessionIds : Construct(s)
    \/ \E s \in TwoSessionIds : Enter(s)
    \/ \E s \in TwoSessionIds : Exit(s)
    \/ \E s \in TwoSessionIds : Del(s)

-----------------------------------------------------------------------------
(* Python values and mappings of the builders *)

None == [t |-> "None"]
Str(v) == [t |-> "str", v |-> v]
List(v) == [t |-> "list", v |-> v]
Map(v) == [t |-> "map", v |-> v]
Bool(v) == [t |-> "bool", v |-> v]

\* bool(x)
Truthy(x) ==
    CASE x.t = "None" -> FALSE
      [] x.t = "bool" -> x.v
      [] x.t = "str" -> x.v # <<>>
      [] x.t = "list" -> x.v # <<>>
      [] x.t = "map" -> DOMAIN x.v # {}

EmptyDict == [k \in {} |-> None]

\* d.get(k), d.pop(k, None): None when the key is absent
Get(d, k) == IF k \in DOMAIN d THEN d[k] ELSE None

\* d after del d[k] / d.pop(k)
Without(d, k) == [x \in DOMAIN d \ {k} |-> d[x]]

\* d after d[k] = v
With(d, k, v) == [x \in DOMAIN d \cup {k} |-> IF x = k THEN v ELSE d[x]]

-----------------------------------------------------------------------------
(* Step classes *)

\* the classes of ploomber.tasks a specification may name
TaskClasses == {"NotebookRunner", "SQLScript", "ShellScript", "PythonCallable"}

\* the classes of ploomber.products
ProductClasses == {"File", "GenericProduct", "SQLiteRelation"}

\* pathlib: the final component of a path ('.' and empty components dropped)
PathName(path) ==
    LET IsPart(c) == c # <<>> /\ c # <<".">>
        parts == SelectSeq(SplitOn(path, "/"), IsPart)
    IN  IF parts = <<>> THEN <<>> ELSE parts[Len(parts)]

\* Path(path).suffix: from the last dot of the name, when it is neither the
\* first nor the last character of the name
Suffix(path) ==
    LET name == PathName(path)
        i == LastIndex(name, ".")
    IN  IF 1 < i /\ i < Len(name) THEN DropChars(name, i - 1) ELSE <<>>

\* DAGSpec.py
suffix2class ==
    (<<".", "py">> :> "NotebookRunner") @@ (<<".", "ipynb">> :> "NotebookRunner")
    @@ (<<".", "sql">> :> "SQLScript") @@ (<<".", "sh">> :> "ShellScript")

\* the table of TaskDict.py without the notebook suffix
suffix2taskclass_no_ipynb ==
    (<<".", "py">> :> "NotebookRunner")
    @@ (<<".", "sql">> :> "SQLScript") @@ (<<".", "sh">> :> "ShellScript")

\* TaskDict.py
suffix2taskclass ==
    (<<".", "py">> :> "NotebookRunner") @@ (<<".", "ipynb">> :> "NotebookRunner")
    @@ (<<".", "sql">> :> "SQLScript") @@ (<<".", "sh">> :> "ShellScript")

\* an exception
Raised(type, about) == [ok |-> FALSE, error |-> type, about |-> about]

\* getattr(tasks, class_name): the name is a one-atom string
GetTaskClass(class_name) ==
    IF Len(class_name) = 1 /\ class_name[1] \in TaskClasses
    THEN [ok |-> TRUE, class |-> class_name[1]]
    ELSE Raised("AttributeError", <<class_name>>)

\* DAGSpec.get_task_class: the class (or the exception) and the mapping left
DagGetTaskClass(task_dict) ==
    LET class_name == Get(task_dict, "class")
        rest == Without(task_dict, "class")
        suffix == Suffix(rest["source"].v)
    IN  [task_dict |-> rest,
         res |-> IF Truthy(class_name) THEN GetTaskClass(class_name.v)
                 ELSE IF suffix \in DOMAIN suffix2class
                 THEN [ok |-> TRUE, class |-> suffix2class[suffix]]
                 ELSE Raised("KeyError",
                             <<rest["source"].v, DOMAIN suffix2class>>)]

\* TaskDict.get_task_class: the class (or the exception) and the mapping left
TdGetTaskClass(task_dict) ==
    LET class_name == Get(task_dict, "class")
        rest == Without(task_dict, "class")
        suffix == Suffix(rest["source"].v)
    IN  [task_dict |-> rest,
         res |-> IF Truthy(class_name) THEN GetTaskClass(class_name.v)
                 ELSE IF "source" \notin DOMAIN rest
                 THEN Raised("KeyError", <<"source">>)
                 ELSE IF suffix \in DOMAIN suffix2taskclass
                 THEN [ok |-> TRUE, class |-> suffix2taskclass[suffix]]
                 ELSE Raised("KeyError",
                             <<rest["source"].v, DOMAIN suffix2taskclass>>)]

-----------------------------------------------------------------------------
(* Helpers shared by the two builders *)

\* _make_iterable(o), as a list
make_iterable(o) ==
    IF o.t = "list" THEN o.v
    ELSE IF o.t = "None" THEN <<>>
    ELSE <<o.v>>

\* _pop_upstream(task_dict): the list and the mapping left
pop_upstream(task_dict) ==
    [upstream |-> make_iterable(Get(task_dict, "upstream")),
     task_dict |-> Without(task_dict, "upstream")]

\* the dotted paths a specification names: the first two resolve
GoodFactory == <<"db", ".", "get">>
DagFactory == <<"pipeline", ".", "make">>
BadFactory == <<"db", ".", "nope">>

\* _load_factory(dotted_path)(): the object the factory returns
load_factory(dotted_path) ==
    IF dotted_path \in {GoodFactory, DagFactory}
    THEN [ok |-> TRUE, object |-> <<"made by", dotted_path>>]
    ELSE Raised("LoadError", <<dotted_path>>)

\* getattr(products, name): the name is a one-atom string
GetProductClass(name) ==
    IF Len(name) = 1 /\ name[1] \in ProductClasses
    THEN [ok |-> TRUE, class |-> name[1]]
    ELSE Raised("AttributeError", <<name>>)

\* CLASS(value, **kwargs), a product
Product(class, value, kwargs) == [class |-> class, arg |-> value, kwargs |-> kwargs]

-----------------------------------------------------------------------------
(* The task builder (TaskDict.py) *)

\* validate.keys(valid=None, passed, required, name): a Validation error
\* when a required key is absent
validate_keys(passed, required) ==
    IF required \subseteq DOMAIN passed
    THEN [ok |-> TRUE]
    ELSE Raised("ValidationError", <<required \ DOMAIN passed>>)

\* TaskDict.validate
validate(data, meta) ==
    LET required == IF meta["extract_product"] THEN {"source"}
                    ELSE {"product", "source"}
        keys == validate_keys(data, required)
    IN  IF ~keys.ok THEN keys
        ELSE IF meta["extract_upstream"] /\ Truthy(Get(data, "upstream"))
        THEN Raised("ValueError", <<"upstream">>)
        ELSE IF meta["extract_product"] /\ Truthy(Get(data, "product"))
        THEN Raised("ValueError", <<"product">>)
        ELSE [ok |-> TRUE]

\* get_value_at(meta, 'product_default_class.' + class name)
meta_product_default_class(meta, class) ==
    IF "product_default_class" \notin DOMAIN meta THEN None
    ELSE IF class \notin DOMAIN meta["product_default_class"] THEN None
    ELSE meta["product_default_class"][class]

\* Path(source).parent, as the components before the last one
Parent(path) ==
    LET IsPart(c) == c # <<>> /\ c # <<".">>
        parts == SelectSeq(SplitOn(path, "/"), IsPart)
    IN  SubSeq(parts, 1, Len(parts) - 1)

\* '/'.join(parts)
RECURSIVE JoinSlash(_)
JoinSlash(parts) ==
    IF Len(parts) = 0 THEN <<>>
    ELSE IF Len(parts) = 1 THEN parts[1]
    ELSE parts[1] \o <<"/">> \o JoinSlash(Tail(parts))

\* the working directory, against which Path.resolve() resolves
Cwd == <<<<>>, <<"cwd">>>>

\* resolve_product(product_raw, relative_to, class_); relative_to is the
\* parent of the source (a Path, always true) or False
resolve_product(product_raw, relative, parent, class) ==
    IF ~relative \/ class # "File" THEN [ok |-> TRUE, value |-> product_raw]
    ELSE IF product_raw.t # "str" THEN Raised("TypeError", <<"product">>)
    ELSE IF Len(product_raw.v) > 0 /\ product_raw.v[1] = "/"
    THEN [ok |-> TRUE, value |-> product_raw]
    ELSE [ok |-> TRUE,
          value |-> Str(JoinSlash(Cwd \o parent \o
                                  IF product_raw.v = <<>> THEN <<>>
                                  ELSE <<product_raw.v>>))]

\* _init_product(task_dict, meta, task_class): the product (or the
\* exception) and the mapping left
init_product(task_dict, meta, task_class) ==
    IF "product" \notin DOMAIN task_dict
    THEN [task_dict |-> task_dict, res |-> Raised("KeyError", <<"product">>)]
    ELSE
    LET product_raw == task_dict["product"]
        d1 == Without(task_dict, "product")
        default == meta_product_default_class(meta, task_class)
        CLASS == IF "product_class" \in DOMAIN d1
                 THEN IF d1["product_class"].t = "str"
                      THEN GetProductClass(d1["product_class"].v)
                      ELSE Raised("TypeError", <<"product_class">>)
                 ELSE IF Truthy(default) THEN GetProductClass(default.v)
                 ELSE Raised("ValueError", <<"product_class">>)
        d2 == Without(d1, "product_class")
        client == IF "product_client" \in DOMAIN d2
                  THEN load_factory(d2["product_client"].v)
                  ELSE [ok |-> TRUE]
        kwargs == IF "product_client" \in DOMAIN d2
                  THEN [k \in {"client"} |-> client.object]
                  ELSE EmptyDict
        d3 == Without(d2, "product_client")
        relative == meta["product_relative_to_source"]
        parent == Parent(d3["source"].v)
        Resolved(v) == resolve_product(v, relative, parent, CLASS.class)
    IN  IF ~CLASS.ok
        THEN [task_dict |-> IF "product_class" \in DOMAIN d1 THEN d2 ELSE d1,
              res |-> CLASS]
        ELSE IF ~client.ok THEN [task_dict |-> d3, res |-> client]
        ELSE IF relative /\ "source" \notin DOMAIN d3
        THEN [task_dict |-> d3, res |-> Raised("KeyError", <<"source">>)]
        ELSE IF product_raw.t = "map"
        THEN IF \E k \in DOMAIN product_raw.v : ~Resolved(product_raw.v[k]).ok
             THEN [task_dict |-> d3, res |-> Raised("TypeError", <<"product">>)]
             ELSE [task_dict |-> d3,
                   res |-> [ok |-> TRUE,
                            product |-> Map([k \in DOMAIN product_raw.v |->
                                Product(CLASS.class,
                                        Resolved(product_raw.v[k]).value,
                                        kwargs)])]]
        ELSE IF ~Resolved(product_raw).ok
        THEN [task_dict |-> d3, res |-> Resolved(product_raw)]
        ELSE [task_dict |-> d3,
              res |-> [ok |-> TRUE,
                       product |-> Product(CLASS.class,
                                           Resolved(product_raw).value, kwargs)]]

\* _init_client(task_dict): the mapping with the client loaded, or the exception
init_client(task_dict) ==
    IF "client" \notin DOMAIN task_dict THEN [ok |-> TRUE, task_dict |-> task_dict]
    ELSE LET made == load_factory(task_dict["client"].v)
         IN  IF made.ok
             THEN [ok |-> TRUE,
                   task_dict |-> With(task_dict, "client", Str(made.object))]
             ELSE made

\* class_(source=Path(source_raw), product=product, name=name_raw or
\* source_raw, dag=dag, **task_dict), the mapping having lost source and name
NewTask(class, task_dict, product) ==
    LET source_raw == task_dict["source"]
        name_raw == Get(task_dict, "name")
    IN  [class |-> class,
         source |-> source_raw.v,
         name |-> IF Truthy(name_raw) THEN name_raw.v ELSE source_raw.v,
         product |-> product,
         params |-> Without(Without(task_dict, "source"), "name")]

\* TaskDict.to_task: the step and its upstream list, or the exception, and
\* what is left of self.data
to_task(data, meta) ==
    LET up == pop_upstream(data)
        cl == TdGetTaskClass(up.task_dict)
        pr == init_product(cl.task_dict, meta, cl.res.class)
        ic == init_client(pr.task_dict)
    IN  IF ~cl.res.ok THEN [data |-> cl.task_dict, res |-> cl.res]
        ELSE IF ~pr.res.ok THEN [data |-> pr.task_dict, res |-> pr.res]
        ELSE IF ~ic.ok THEN [data |-> Without(pr.task_dict, "client"), res |-> ic]
        ELSE IF "source" \notin DOMAIN ic.task_dict
        THEN [data |-> ic.task_dict, res |-> Raised("KeyError", <<"source">>)]
        ELSE [data |-> Without(Without(ic.task_dict, "source"), "name"),
              res |-> [ok |-> TRUE,
                       task |-> NewTask(cl.res.class, ic.task_dict, pr.res.product),
                       upstream |-> up.upstream]]

OutCsv == <<"out", ".", "csv">>

TdSources == {<<"a", ".", "py">>, <<"d", "/", "b", ".", "sql">>, <<"c", ".", "txt">>}
TdProducts ==
    {None, Str(<<>>), Str(OutCsv), Map([k \in {"nb"} |-> Str(<<"out", ".", "ipynb">>)])}
TdUpstreams == {List(<<>>), Str(<<"x">>), List(<<<<"x">>, <<"y">>>>)}
\* the keys besides source, product, upstream, class and product_class
TdExtras ==
    {EmptyDict,
     [k \in {"product_client", "client", "name", "param"} |->
        IF k \in {"client", "product_client"} THEN Str(GoodFactory)
        ELSE IF k = "name" THEN Str(<<"n">>) ELSE Str(<<"1">>)],
     [k \in {"client"} |-> Str(BadFactory)]}

\* a mapping from the keys chosen: absent keys are left out
TdMapping(source, product, upstream, class, product_class, extra) ==
    LET core == [k \in {"source", "product", "upstream", "class", "product_class"} |->
                    CASE k = "source" -> source
                      [] k = "product" -> product
                      [] k = "upstream" -> upstream
                      [] k = "class" -> class
                      [] k = "product_class" -> product_class]
        present == {k \in DOMAIN core : core[k] # [t |-> "absent"]}
    IN  [k \in present \cup DOMAIN extra |->
            IF k \in DOMAIN extra THEN extra[k] ELSE core[k]]

Absent == [t |-> "absent"]

TdMappings ==
    {TdMapping(so, pr, up, cl, pc, ex) :
        so \in {Absent} \cup {Str(p) : p \in TdSources},
        pr \in {Absent} \cup TdProducts,
        up \in {Absent} \cup TdUpstreams,
        cl \in {Absent, Str(<<"PythonCallable">>)},
        pc \in {Absent, Str(<<"GenericProduct">>)},
        ex \in TdExtras}

TdDefaultClasses ==
    {[c \in {"NotebookRunner", "SQLScript", "PythonCallable"} |->
        IF c = "NotebookRunner" THEN Str(<<"File">>)
        ELSE IF c = "SQLScript" THEN Str(<<"SQLiteRelation">>) ELSE None]}

TdMetas ==
    {[k \in {"extract_product", "extract_upstream", "product_relative_to_source"} |->
        CASE k = "extract_product" -> ep
          [] k = "extract_upstream" -> eu
          [] k = "product_relative_to_source" -> rel] :
        ep \in BOOLEAN, eu \in BOOLEAN, rel \in BOOLEAN}
    \cup
    {[k \in {"extract_product", "extract_upstream", "product_relative_to_source",
             "product_default_class"} |->
        CASE k = "extract_product" -> ep
          [] k = "extract_upstream" -> eu
          [] k = "product_relative_to_source" -> rel
          [] k = "product_default_class" -> dc] :
        ep \in BOOLEAN, eu \in BOOLEAN, rel \in BOOLEAN, dc \in TdDefaultClasses}

TdInit ==
    /\ td_given \in TdMappings
    /\ td_meta \in TdMetas
    /\ td_data = td_given
    /\ td_state = "new"
    /\ td_out = [ok |-> TRUE]
    /\ td_called = EmptyDict
    /\ td_edits = 0

TdIdle ==
    /\ td_given = EmptyDict
    /\ td_meta = EmptyDict
    /\ td_data = EmptyDict
    /\ td_state = "idle"
    /\ td_out = [ok |-> TRUE]
    /\ td_called = EmptyDict
    /\ td_edits = 0

\* the TaskDict was constructed
TdExists == td_state \in {"constructed", "materialized", "failed"}

\* TaskDict(data, meta)
TaskDictInit ==
    /\ td_state = "new"
    /\ td_out' = validate(td_data, td_meta)
    /\ td_state' = IF validate(td_data, td_meta).ok THEN "constructed" ELSE "invalid"
    /\ UNCHANGED <<td_given, td_data, td_meta, td_called, td_edits>>
    /\ UNCHANGED notTdVars

\* TaskDict.to_task(dag)
ToTask ==
    /\ TdExists
    /\ td_called' = td_data
    /\ td_data' = to_task(td_data, td_meta).data
    /\ td_out' = to_task(td_data, td_meta).res
    /\ td_state' = IF to_task(td_data, td_meta).res.ok THEN "materialized"
                   ELSE "failed"
    /\ UNCHANGED <<td_given, td_meta, td_edits>>
    /\ UNCHANGED notTdVars

\* what callers assign through the mapping
TdAssignments ==
    {<<"class", Str(<<"Nope">>)>>,
     <<"source", Str(<<"c", ".", "txt">>)>>,
     <<"product", Str(OutCsv)>>}

\* TaskDict.__setitem__(key, value)
SetItem ==
    /\ TdExists
    /\ td_edits < MaxMutations
    /\ \E a \in TdAssignments : td_data' = With(td_data, a[1], a[2])
    /\ td_edits' = td_edits + 1
    /\ UNCHANGED <<td_given, td_meta, td_state, td_out, td_called>>
    /\ UNCHANGED notTdVars

\* TaskDict.__delitem__(key), for a key the mapping holds
DelItem ==
    /\ TdExists
    /\ td_edits < MaxMutations
    /\ \E key \in DOMAIN td_data \cap {"source", "product"} :
            td_data' = Without(td_data, key)
    /\ td_edits' = td_edits + 1
    /\ UNCHANGED <<td_given, td_meta, td_state, td_out, td_called>>
    /\ UNCHANGED notTdVars

TdNext ==
    \/ TaskDictInit
    \/ ToTask
    \/ SetItem
    \/ DelItem

-----------------------------------------------------------------------------
(* The DAG builder (DAGSpec.py) *)

MaxTasks == 3

\* normalize_task(task): a bare string is a source
normalize_task(task) ==
    IF task.t = "str" THEN [k \in {"source"} |-> task] ELSE task.v

\* DAGSpec(data).data: a list is the tasks, bare strings are normalised,
\* meta and its two flags are back-filled
DAGSpec(data) ==
    LET d0 == IF "t" \in DOMAIN data THEN [k \in {"tasks"} |-> data.v] ELSE data
        tasks == [i \in 1..Len(d0["tasks"]) |-> normalize_task(d0["tasks"][i])]
        m0 == IF "meta" \in DOMAIN d0 THEN d0["meta"] ELSE EmptyDict
        m1 == IF "infer_upstream" \in DOMAIN m0 THEN m0
              ELSE With(m0, "infer_upstream", TRUE)
        m2 == IF "extract_product" \in DOMAIN m1 THEN m1
              ELSE With(m1, "extract_product", TRUE)
    IN  [k \in DOMAIN d0 \cup {"meta"} |->
            IF k = "tasks" THEN tasks ELSE IF k = "meta" THEN m2 ELSE d0[k]]

\* get_value_at(dag_spec, 'config.clients'): the pairs (class name, dotted
\* path) in the order of the mapping, None when a key is missing
config_clients(spec) ==
    IF "config" \notin DOMAIN spec THEN None
    ELSE IF "clients" \notin DOMAIN spec["config"] THEN None
    ELSE List(spec["config"]["clients"])

\* get_value_at(dag_spec, 'meta.product_class')
meta_product_class(meta) == Get(meta, "product_class")

\* the class init_clients registers a client for: a step class of that name,
\* else a product class of that name
ClientClass(class_name) ==
    IF class_name \in TaskClasses \cup ProductClasses
    THEN [ok |-> TRUE, class |-> class_name]
    ELSE Raised("AttributeError", <<class_name>>)

\* init_clients(dag, clients) from the pair at position i on: the registry
\* reached, and the exception that stopped it if any
RECURSIVE init_clients(_, _, _)
init_clients(registry, clients, i) ==
    IF i > Len(clients) THEN [res |-> [ok |-> TRUE], registry |-> registry]
    ELSE LET class == ClientClass(clients[i][1])
             made == load_factory(clients[i][2])
         IN  IF ~class.ok THEN [res |-> class, registry |-> registry]
             ELSE IF ~made.ok THEN [res |-> made, registry |-> registry]
             ELSE init_clients(With(registry, class.class,
                                    <<"SQLAlchemyClient", made.object>>),
                               clients, i + 1)

\* _pop_product(task_dict, dag_spec): the product (or the exception) and the
\* mapping left
pop_product(task_dict, meta) ==
    IF "product" \notin DOMAIN task_dict
    THEN [task_dict |-> task_dict, res |-> Raised("KeyError", <<"product">>)]
    ELSE
    LET product_raw == task_dict["product"]
        d1 == Without(task_dict, "product")
        product_class == meta_product_class(meta)
        CLASS == IF "product_class" \in DOMAIN d1
                 THEN IF d1["product_class"].t = "str"
                      THEN GetProductClass(d1["product_class"].v)
                      ELSE Raised("TypeError", <<"product_class">>)
                 ELSE IF Truthy(product_class) THEN GetProductClass(product_class.v)
                 ELSE [ok |-> TRUE, class |-> "File"]
        d2 == Without(d1, "product_class")
    IN  IF ~CLASS.ok THEN [task_dict |-> d2, res |-> CLASS]
        ELSE IF product_raw.t = "map"
        THEN [task_dict |-> d2,
              res |-> [ok |-> TRUE,
                       product |-> Map([k \in DOMAIN product_raw.v |->
                            Product(CLASS.class, product_raw.v[k], EmptyDict)])]]
        ELSE [task_dict |-> d2,
              res |-> [ok |-> TRUE,
                       product |-> Product(CLASS.class, product_raw, EmptyDict)]]

\* init_task(task_dict, dag, dag_spec): the step and its upstream list, or
\* the exception, and the mapping left
init_task(task_dict, meta) ==
    LET up == pop_upstream(task_dict)
        cl == DagGetTaskClass(up.task_dict)
        pr == pop_product(cl.task_dict, meta)
    IN  IF ~cl.res.ok THEN [task_dict |-> cl.task_dict, res |-> cl.res]
        ELSE IF ~pr.res.ok THEN [task_dict |-> pr.task_dict, res |-> pr.res]
        ELSE [task_dict |-> Without(Without(pr.task_dict, "source"), "name"),
              res |-> [ok |-> TRUE,
                       task |-> NewTask(cl.res.class, pr.task_dict, pr.res.product),
                       upstream |-> up.upstream]]

\* the overwriting a task mapping gets before init_task (process_tasks)
overwritten_keeps_declared(task_dict, meta, extracted) ==
    LET source == task_dict["source"].v
        t1 == IF meta["infer_upstream"] /\ "upstream" \notin DOMAIN task_dict
              THEN With(task_dict, "upstream", extracted.upstream[source])
              ELSE task_dict
    IN  IF meta["extract_product"] /\ "product" \notin DOMAIN task_dict
        THEN With(t1, "product", extracted.product[source])
        ELSE t1

overwritten(task_dict, meta, extracted) ==
    LET source == task_dict["source"].v
        t1 == IF meta["infer_upstream"]
              THEN With(task_dict, "upstream", extracted.upstream[source])
              ELSE task_dict
    IN  IF meta["extract_product"]
        THEN With(t1, "product", extracted.product[source])
        ELSE t1

SrcA == <<"a", ".", "py">>
SrcB == <<"b", ".", "sql">>
SrcC == <<"c", ".", "sh">>
SrcD == <<"d", ".", "py">>
SrcT == <<"c", ".", "txt">>
DgSources == {SrcA, SrcB, SrcC, SrcD, SrcT}

\* the entries of a tasks list: a bare source, and mappings
DgTaskA == Str(SrcA)
DgTaskB ==
    Map([k \in {"source", "name", "upstream", "product"} |->
            CASE k = "source" -> Str(SrcB)
              [] k = "name" -> Str(<<"b">>)
              [] k = "upstream" -> Str(SrcA)
              [] k = "product" -> Str(OutCsv)])
DgTaskC ==
    Map([k \in {"source", "name", "upstream", "product", "product_class", "class",
                "param"} |->
            CASE k = "source" -> Str(SrcC)
              [] k = "name" -> Str(<<"c">>)
              [] k = "upstream" -> List(<<<<"b">>, SrcA>>)
              [] k = "product" -> Map([n \in {"nb"} |-> Str(<<"out", ".", "ipynb">>)])
              [] k = "product_class" -> Str(<<"GenericProduct">>)
              [] k = "class" -> Str(<<"PythonCallable">>)
              [] k = "param" -> Str(<<"1">>)])
DgTaskD ==
    Map([k \in {"source", "upstream", "product"} |->
            CASE k = "source" -> Str(SrcD)
              [] k = "upstream" -> List(<<<<"zz">>>>)
              [] k = "product" -> None])
DgTaskE ==
    Map([k \in {"source", "product"} |->
            CASE k = "source" -> Str(SrcT)
              [] k = "product" -> Str(OutCsv)])
DgTaskPalette == {DgTaskA, DgTaskB, DgTaskC, DgTaskD, DgTaskE}

DgTaskLists == UNION {[1..n -> DgTaskPalette] : n \in 0..MaxTasks}

DgMetas ==
    {EmptyDict,
     [k \in {"infer_upstream", "extract_product"} |-> FALSE],
     [k \in {"infer_upstream"} |-> FALSE],
     [k \in {"extract_product", "product_class"} |->
        IF k = "extract_product" THEN FALSE ELSE Str(<<"SQLiteRelation">>)]}

DgConfigs ==
    {EmptyDict,
     [k \in {"clients"} |-> <<>>],
     [k \in {"clients"} |-> <<<<"SQLScript", GoodFactory>>, <<"File", GoodFactory>>>>],
     [k \in {"clients"} |-> <<<<"SQLScript", GoodFactory>>, <<"Nope", GoodFactory>>>>],
     [k \in {"clients"} |-> <<<<"File", BadFactory>>>>]}

\* a specification mapping from the keys chosen; an absent meta or config
\* is passed as Absent
DgMapping(tasks, meta, config) ==
    [k \in {"tasks"} \cup (IF meta = Absent THEN {} ELSE {"meta"})
                     \cup (IF config = Absent THEN {} ELSE {"config"}) |->
        IF k = "tasks" THEN tasks ELSE IF k = "meta" THEN meta ELSE config]

DgSpecs ==
    {DgMapping(ts, m, c) : ts \in DgTaskLists, m \in {Absent} \cup DgMetas,
                           c \in {Absent} \cup DgConfigs}
    \cup {List(ts) : ts \in DgTaskLists}
    \cup {[k \in {"location", "tasks"} |->
                IF k = "location" THEN Str(DagFactory) ELSE <<DgTaskA>>],
          [k \in {"location"} |-> Str(BadFactory)]}

\* what project.infer_from_path may return for the sources given: a mapping
\* of upstream identifiers and a mapping of raw products, keyed by source
Analyses(sources) ==
    {[upstream |-> [s \in sources |->
                        CASE s = SrcB -> List(<<SrcA>>)
                          [] s = SrcC -> List(<<SrcA, <<"b">>>>)
                          [] s = SrcD -> List(<<<<"b">>>>)
                          [] OTHER -> List(<<>>)],
      product |-> [s \in sources |-> Str(s \o <<".", "out">>)]],
     [upstream |-> [s \in sources |->
                        CASE s = SrcC -> List(<<<<"b">>>>)
                          [] s = SrcD -> List(<<<<"zz">>>>)
                          [] OTHER -> List(<<>>)],
      product |-> [s \in sources |->
                        Map([n \in {"nb"} |-> Str(s \o <<".", "ipynb">>)])]]}

NotExtracted == [upstream |-> EmptyDict, product |-> EmptyDict]

DgInit ==
    /\ dg_given \in DgSpecs
    /\ dg_pc = "start"
    /\ dag_spec = EmptyDict
    /\ dg_tasks = <<>>
    /\ dg_extracted = NotExtracted
    /\ dg_i = 1
    /\ dg_j = 1
    /\ dg_steps = EmptyDict
    /\ dg_order = <<>>
    /\ dg_upstream = EmptyDict
    /\ dg_edges = {}
    /\ dg_clients = EmptyDict
    /\ dg_out = [ok |-> TRUE]

DgIdle ==
    /\ dg_given = EmptyDict
    /\ dg_pc = "idle"
    /\ dag_spec = EmptyDict
    /\ dg_tasks = <<>>
    /\ dg_extracted = NotExtracted
    /\ dg_i = 1
    /\ dg_j = 1
    /\ dg_steps = EmptyDict
    /\ dg_order = <<>>
    /\ dg_upstream = EmptyDict
    /\ dg_edges = {}
    /\ dg_clients = EmptyDict
    /\ dg_out = [ok |-> TRUE]

\* init_dag up to dag = DAG(): a location is loaded and its graph returned;
\* otherwise the specification is normalised and an empty graph made
InitDag ==
    /\ dg_pc = "start"
    /\ IF "location" \in DOMAIN dg_given
       THEN LET made == load_factory(dg_given["location"].v)
            IN  /\ dg_pc' = IF made.ok THEN "done" ELSE "raised"
                /\ dg_out' = IF made.ok THEN [ok |-> TRUE, dag |-> made.object]
                             ELSE made
                /\ UNCHANGED <<dag_spec, dg_tasks>>
       ELSE /\ dag_spec' = Without(DAGSpec(dg_given), "tasks")
            /\ dg_tasks' = DAGSpec(dg_given)["tasks"]
            /\ dg_pc' = "clients"
            /\ UNCHANGED dg_out
    /\ UNCHANGED <<dg_given, dg_extracted, dg_i, dg_j, dg_steps, dg_order,
                   dg_upstream, dg_edges, dg_clients>>
    /\ UNCHANGED notDgVars

\* init_dag going on to process_tasks with no client registered
InitClients_registering_nothing ==
    /\ dg_pc = "clients"
    /\ dg_pc' = "infer"
    /\ UNCHANGED <<dg_given, dag_spec, dg_tasks, dg_extracted, dg_i, dg_j,
                   dg_steps, dg_order, dg_upstream, dg_edges, dg_clients, dg_out>>
    /\ UNCHANGED notDgVars

\* init_dag: config_clients = ...; if config_clients: init_clients(...)
InitClients ==
    /\ dg_pc = "clients"
    /\ LET clients == config_clients(dag_spec)
           done == init_clients(dg_clients, clients.v, 1)
       IN  IF Truthy(clients)
           THEN /\ dg_clients' = done.registry
                /\ dg_pc' = IF done.res.ok THEN "infer" ELSE "raised"
                /\ dg_out' = done.res
           ELSE /\ dg_pc' = "infer"
                /\ UNCHANGED <<dg_clients, dg_out>>
    /\ UNCHANGED <<dg_given, dag_spec, dg_tasks, dg_extracted, dg_i, dg_j,
                   dg_steps, dg_order, dg_upstream, dg_edges>>
    /\ UNCHANGED notDgVars

\* process_tasks up to its first loop: the sources are handed to the
\* static analysis
InferFromPath ==
    /\ dg_pc = "infer"
    /\ \E extracted \in Analyses({dg_tasks[i]["source"].v : i \in 1..Len(dg_tasks)}) :
            dg_extracted' = extracted
    /\ dg_i' = 1
    /\ dg_pc' = IF Len(dg_tasks) = 0 THEN "wire" ELSE "tasks"
    /\ UNCHANGED <<dg_given, dag_spec, dg_tasks, dg_j, dg_steps, dg_order,
                   dg_upstream, dg_edges, dg_clients, dg_out>>
    /\ UNCHANGED notDgVars

\* one turn of the first loop of process_tasks, wiring as it goes
ProcessTask_wiring_eagerly ==
    /\ dg_pc = "tasks"
    /\ LET made == init_task(overwritten(dg_tasks[dg_i], dag_spec["meta"],
                                         dg_extracted),
                             dag_spec["meta"])
           name == made.res.task.name
       IN  /\ dg_tasks' = [dg_tasks EXCEPT ![dg_i] = made.task_dict]
           /\ IF made.res.ok
              THEN /\ dg_steps' = With(dg_steps, name, made.res.task)
                   /\ dg_order' = IF name \in DOMAIN dg_steps THEN dg_order
                                  ELSE Append(dg_order, name)
                   /\ dg_upstream' = With(dg_upstream, name, made.res.upstream)
                   /\ dg_edges' = dg_edges \cup
                        {<<name, made.res.upstream[k]>> :
                            k \in {n \in 1..Len(made.res.upstream) :
                                    made.res.upstream[n] \in DOMAIN dg_steps}}
                   /\ dg_i' = dg_i + 1
                   /\ dg_pc' = IF dg_i = Len(dg_tasks) THEN "wire" ELSE "tasks"
                   /\ UNCHANGED dg_out
              ELSE /\ dg_pc' = "raised"
                   /\ dg_out' = made.res
                   /\ UNCHANGED <<dg_steps, dg_order, dg_upstream, dg_i, dg_edges>>
    /\ dg_j' = 1
    /\ UNCHANGED <<dg_given, dag_spec, dg_extracted, dg_clients>>
    /\ UNCHANGED notDgVars

\* one turn of the first loop of process_tasks: the upstream and product
\* keys are overwritten, the step is made and registered on the graph, and
\* its upstream list remembered
ProcessTask ==
    /\ dg_pc = "tasks"
    /\ LET made == init_task(overwritten(dg_tasks[dg_i], dag_spec["meta"],
                                         dg_extracted),
                             dag_spec["meta"])
           name == made.res.task.name
       IN  /\ dg_tasks' = [dg_tasks EXCEPT ![dg_i] = made.task_dict]
           /\ IF made.res.ok
              THEN /\ dg_steps' = With(dg_steps, name, made.res.task)
                   /\ dg_order' = IF name \in DOMAIN dg_steps THEN dg_order
                                  ELSE Append(dg_order, name)
                   /\ dg_upstream' = With(dg_upstream, name, made.res.upstream)
                   /\ dg_i' = dg_i + 1
                   /\ dg_pc' = IF dg_i = Len(dg_tasks) THEN "wire" ELSE "tasks"
                   /\ UNCHANGED dg_out
              ELSE /\ dg_pc' = "raised"
                   /\ dg_out' = made.res
                   /\ UNCHANGED <<dg_steps, dg_order, dg_upstream, dg_i>>
    /\ dg_j' = 1
    /\ UNCHANGED <<dg_given, dag_spec, dg_extracted, dg_edges, dg_clients>>
    /\ UNCHANGED notDgVars

\* the positions of ups before the first identifier that names no step
Found(ups, steps) ==
    {k \in 1..Len(ups) : \A n \in 1..k : ups[n] \in DOMAIN steps}

\* one turn of the second loop of process_tasks: the step at position dg_j
\* of the graph gets each of its remembered identifiers as a dependency
WireTask ==
    /\ dg_pc = "wire"
    /\ dg_j <= Len(dg_order)
    /\ LET task == dg_order[dg_j]
           ups == dg_upstream[task]
           found == Found(ups, dg_steps)
       IN  /\ dg_edges' = dg_edges \cup {<<task, ups[k]>> : k \in found}
           /\ IF found = 1..Len(ups)
              THEN /\ dg_j' = dg_j + 1
                   /\ UNCHANGED <<dg_pc, dg_out>>
              ELSE /\ dg_pc' = "raised"
                   /\ dg_out' = Raised("KeyError", <<ups[Cardinality(found) + 1]>>)
                   /\ UNCHANGED dg_j
    /\ UNCHANGED <<dg_given, dag_spec, dg_tasks, dg_extracted, dg_i, dg_steps,
                   dg_order, dg_upstream, dg_clients>>
    /\ UNCHANGED notDgVars

\* init_dag: return dag
ReturnDag ==
    /\ dg_pc = "wire"
    /\ dg_j > Len(dg_order)
    /\ dg_pc' = "done"
    /\ dg_out' = [ok |-> TRUE, dag |-> <<"graph">>]
    /\ UNCHANGED <<dg_given, dag_spec, dg_tasks, dg_extracted, dg_i, dg_j,
                   dg_steps, dg_order, dg_upstream, dg_edges, dg_clients>>
    /\ UNCHANGED notDgVars

DgNext ==
    \/ InitDag
    \/ InitClients
    \/ InferFromPath
    \/ ProcessTask
    \/ WireTask
    \/ ReturnDag

-----------------------------------------------------------------------------
(* Step-class resolution applied to every task mapping *)

PathAtoms == {"a", ".", "/", "py", "ipynb", "sql", "sh", "txt"}

Paths == UNION {[1..n -> PathAtoms] : n \in 0..MaxPathLen}

\* the values a specification may give the class key
ClassValues ==
    {None, Str(<<>>)} \cup {Str(<<c>>) : c \in {"SQLScript", "PythonCallable", "Nope"}}

ClsTasks ==
    {[k \in {"source"} |-> Str(p)] : p \in Paths}
    \cup {[k \in {"source", "class"} |-> IF k = "source" THEN Str(p) ELSE c] :
            p \in Paths, c \in ClassValues}

NotCalled == [called |-> FALSE]

ClsInit ==
    /\ cls_task \in ClsTasks
    /\ cls_dag = NotCalled
    /\ cls_td = NotCalled

ClsIdle ==
    /\ cls_task = EmptyDict
    /\ cls_dag = NotCalled
    /\ cls_td = NotCalled

\* the DAG builder resolves the step class of the mapping
ResolveInDagBuilder ==
    /\ cls_task # EmptyDict
    /\ cls_dag = NotCalled
    /\ cls_dag' = [called |-> TRUE, out |-> DagGetTaskClass(cls_task)]
    /\ UNCHANGED <<cls_task, cls_td>>
    /\ UNCHANGED notClsVars

\* the task builder resolves the step class of the mapping
ResolveInTaskBuilder ==
    /\ cls_task # EmptyDict
    /\ cls_td = NotCalled
    /\ cls_td' = [called |-> TRUE, out |-> TdGetTaskClass(cls_task)]
    /\ UNCHANGED <<cls_task, cls_dag>>
    /\ UNCHANGED notClsVars

\* C7: what step-class resolution is to give for a task mapping: the class
\* named by a non-empty class key; without one (absent, null or empty) the
\* class the suffix of source selects (.py, .ipynb: notebook execution,
\* .sql: SQL script, .sh: shell script); for any other suffix a KeyError
\* naming the source and the supported suffixes.
ExpectedStepClass(task) ==
    LET named == "class" \in DOMAIN task /\ task["class"].t = "str"
                 /\ task["class"].v # <<>>
        suffix == Suffix(task["source"].v)
    IN  IF named
        THEN IF \E c \in TaskClasses : task["class"].v = <<c>>
             THEN [ok |-> TRUE, class |-> task["class"].v[1]]
             ELSE Raised("AttributeError", <<task["class"].v>>)
        ELSE CASE suffix \in {<<".", "py">>, <<".", "ipynb">>} ->
                    [ok |-> TRUE, class |-> "NotebookRunner"]
               [] suffix = <<".", "sql">> -> [ok |-> TRUE, class |-> "SQLScript"]
               [] suffix = <<".", "sh">> -> [ok |-> TRUE, class |-> "ShellScript"]
               [] OTHER ->
                    Raised("KeyError",
                           <<task["source"].v,
                             {<<".", "py">>, <<".", "ipynb">>, <<".", "sql">>,
                              <<".", "sh">>}>>)

\* C7: the DAG builder and the task builder resolve the step class of every
\* task mapping to the same result, the one ExpectedStepClass describes.
C7_SameStepClassInBothBuilders ==
    /\ cls_dag.called => cls_dag.out.res = ExpectedStepClass(cls_task)
    /\ cls_td.called => cls_td.out.res = ExpectedStepClass(cls_task)
    /\ (cls_dag.called /\ cls_td.called) => cls_dag.out = cls_td.out

\* C7 witness: both builders refused a source with an unsupported suffix.
C7_Witness ==
    /\ cls_dag.called
    /\ cls_td.called
    /\ ~cls_td.out.res.ok
    /\ cls_td.out.res.error = "KeyError"
    /\ Suffix(cls_task["source"].v) = <<".", "txt">>

-----------------------------------------------------------------------------
(* Properties of the task builder *)

\* the cases in which construction is to be refused
MustBeRefused(data, meta) ==
    \/ "source" \notin DOMAIN data
    \/ ~meta["extract_product"] /\ "product" \notin DOMAIN data
    \/ meta["extract_product"] /\ "product" \in DOMAIN data
    \/ meta["extract_upstream"] /\ "upstream" \in DOMAIN data

\* C5: constructing a Task Builder fails with a Validation error exactly
\* when source is absent, or product is absent without extract_product, or
\* product is present (whatever its value) with extract_product, or upstream
\* is present (whatever its value) with extract_upstream; otherwise it succeeds
C5_RefusedExactlyWhenKeysDisagree ==
    (td_state \in {"constructed", "invalid"} /\ td_edits = 0) =>
        (td_state = "invalid" <=> MustBeRefused(td_given, td_meta))

\* to_task was called on a mapping that passes validation and whose step
\* class resolves
Materializable ==
    /\ validate(td_called, td_meta).ok
    /\ ExpectedStepClass(td_called).ok

\* the product class the priority order gives: the task's product_class,
\* else the default of the resolved step class, else none
PriorityProductClass(data, meta) ==
    IF "product_class" \in DOMAIN data THEN data["product_class"]
    ELSE meta_product_default_class(meta, ExpectedStepClass(data).class)

\* the classes of the products of a step
ProductClassesOf(product) ==
    IF "t" \in DOMAIN product
    THEN {product.v[k].class : k \in DOMAIN product.v}
    ELSE {product.class}

\* what to_task does with the product class of a task whose step class resolves
ResolvesByPriority ==
    LET wanted == PriorityProductClass(td_called, td_meta)
    IN  IF Truthy(wanted)
        THEN /\ td_state = "failed" => td_out.error # "ValueError"
             /\ td_state = "materialized" =>
                    ProductClassesOf(td_out.task.product) = {wanted.v[1]}
        ELSE td_state = "failed" /\ td_out.error = "ValueError"

\* C6: to_task resolves the product class as the task's product_class if
\* present, else the meta default of the resolved step class, and with
\* neither set fails with a Missing-configuration error and builds no step
C6_ProductClassByPriority ==
    (td_state \in {"materialized", "failed"} /\ Materializable)
        => ResolvesByPriority

\* to_task stopped on the lookup of a product key the mapping does not hold
FailedForMissingProduct ==
    /\ td_state = "failed"
    /\ td_out.error = "KeyError"
    /\ Len(td_out.about) = 1
    /\ td_out.about = <<"product">>
    /\ "product" \notin DOMAIN td_called

\* C11: to_task on a constructed Task Builder whose step class and product
\* class resolve never fails because the product key is missing, also when
\* extract_product is true and the mapping holds no product key
C11_NeverFailsForMissingProduct ==
    (/\ td_state \in {"materialized", "failed"}
     /\ Materializable
     /\ Truthy(PriorityProductClass(td_called, td_meta)))
        => ~FailedForMissingProduct

\* the same for the mappings that hold a product key
ProductClassByPriorityGivenProduct ==
    (/\ td_state \in {"materialized", "failed"}
     /\ Materializable
     /\ "product" \in DOMAIN td_called)
        => ResolvesByPriority

-----------------------------------------------------------------------------
(* Properties of the DAG builder *)

\* the tasks of the specification given, bare strings normalised
GivenTasks == DAGSpec(dg_given)["tasks"]

\* the name a task mapping gives its step
TaskName(task) ==
    IF Truthy(Get(task, "name")) THEN task["name"].v ELSE task["source"].v

\* init_dag was given tasks (no location) and returned the graph
Built == dg_pc = "done" /\ "location" \notin DOMAIN dg_given

DistinctNames ==
    \A i, k \in 1..Len(GivenTasks) :
        TaskName(GivenTasks[i]) = TaskName(GivenTasks[k]) => i = k

\* the dependencies set on the step of a name
DependenciesOf(name) == {e[2] : e \in {d \in dg_edges : d[1] = name}}

\* what init_task makes of each task of a collection, whatever its order
StepsOfTasks(tasks) ==
    {init_task(overwritten(t, dag_spec["meta"], dg_extracted),
               dag_spec["meta"]).res : t \in tasks}

EdgesOfTasks(tasks) ==
    UNION {{<<made.task.name, made.upstream[k]>> : k \in 1..Len(made.upstream)} :
                made \in StepsOfTasks(tasks)}

\* C4: no dependency is set before every task of the list is constructed and
\* registered, and the graph returned (its steps and its dependency edges)
\* is determined by the collection of tasks alone, so it is the same for
\* every ordering of a list with distinct names whose identifiers name tasks
C4_TwoPassWiring ==
    /\ dg_edges # {} =>
            /\ dg_i > Len(dg_tasks)
            /\ \A i \in 1..Len(GivenTasks) : TaskName(GivenTasks[i]) \in DOMAIN dg_steps
    /\ (Built /\ DistinctNames) =>
            LET tasks == {GivenTasks[i] : i \in 1..Len(GivenTasks)}
            IN  /\ {dg_steps[n] : n \in DOMAIN dg_steps}
                        = {made.task : made \in StepsOfTasks(tasks)}
                /\ dg_edges = EdgesOfTasks(tasks)

\* C4 witness: a graph was returned in which the step registered first
\* depends on the step registered after it
C4_Witness ==
    /\ Built
    /\ DistinctNames
    /\ Len(dg_order) = 2
    /\ <<dg_order[1], dg_order[2]>> \in dg_edges

\* the registry config.clients describes: for each class named, the adapter
\* of the client its (last) dotted path makes
RegistryOf(spec) ==
    LET clients == IF "t" \in DOMAIN spec \/ "config" \notin DOMAIN spec THEN <<>>
                   ELSE IF "clients" \notin DOMAIN spec["config"] THEN <<>>
                   ELSE spec["config"]["clients"]
        Last(c) == CHOOSE i \in 1..Len(clients) :
                        /\ clients[i][1] = c
                        /\ \A k \in (i + 1)..Len(clients) : clients[k][1] # c
    IN  [c \in {clients[i][1] : i \in 1..Len(clients)} |->
            <<"SQLAlchemyClient", <<"made by", clients[Last(c)][2]>>>>]

\* C9 as stated: the client registry is populated only once every task is
\* registered and every dependency wired, and is empty while steps are
\* being constructed
C9_RegistryAfterWiring ==
    /\ dg_clients # EmptyDict => dg_pc = "done"
    /\ dg_pc = "tasks" => dg_clients = EmptyDict

\* C9: without a location, the client registry is populated from
\* config.clients before any task is constructed: no step exists until it is
\* complete, and it stays as config.clients describes it while the steps are
\* constructed, while they are wired, and when the graph is returned
C9_RegistryBeforeTasks ==
    /\ dg_pc \in {"start", "clients"} => dg_steps = EmptyDict /\ dg_edges = {}
    /\ (dg_steps # EmptyDict \/ dg_pc \in {"infer", "tasks", "wire"} \/ Built)
            => dg_clients = RegistryOf(dg_given)

\* C9 witness: a first step is registered, more are to come, and the
\* registry already holds the clients
C9_Witness ==
    /\ dg_pc = "tasks"
    /\ dg_i = 2
    /\ dg_steps # EmptyDict
    /\ DOMAIN dg_clients = {"SQLScript", "File"}

\* the declared upstream of a task mapping as a set of identifiers
DeclaredUpstream(task) ==
    IF "upstream" \notin DOMAIN task THEN {}
    ELSE IF task["upstream"].t = "None" THEN {}
    ELSE IF task["upstream"].t = "str" THEN {task["upstream"].v}
    ELSE {task["upstream"].v[k] : k \in 1..Len(task["upstream"].v)}

\* the identifiers the upstream map gives for a source
InferredUpstream(source) ==
    {dg_extracted.upstream[source].v[k] :
        k \in 1..Len(dg_extracted.upstream[source].v)}

\* the raw value(s) the product(s) of a step were made from
RawProduct(product) ==
    IF "t" \in DOMAIN product
    THEN Map([k \in DOMAIN product.v |-> product.v[k].arg])
    ELSE product.arg

\* C10: in the graph returned, the dependencies of each step are the
\* identifiers of the upstream map for its source when infer_upstream is
\* true (whatever upstream the task declared) and the declared upstream
\* coerced to a list otherwise; its product is made from the product map
\* when extract_product is true and from the product key otherwise
C10_UpstreamAndProductSources ==
    (Built /\ DistinctNames) =>
        \A i \in 1..Len(GivenTasks) :
            LET task == GivenTasks[i]
                source == task["source"].v
                name == TaskName(task)
            IN  /\ DependenciesOf(name) =
                        IF dag_spec["meta"]["infer_upstream"]
                        THEN InferredUpstream(source)
                        ELSE DeclaredUpstream(task)
                /\ RawProduct(dg_steps[name].product) =
                        IF dag_spec["meta"]["extract_product"]
                        THEN dg_extracted.product[source]
                        ELSE task["product"]

\* C10 witness: a graph was returned with infer_upstream true for a task
\* whose declared upstream differs from what the upstream map gives, and
\* its step got the map's identifiers
C10_Witness ==
    /\ Built
    /\ DistinctNames
    /\ \E i \in 1..Len(GivenTasks) :
            /\ dag_spec["meta"]["infer_upstream"]
            /\ "upstream" \in DOMAIN GivenTasks[i]
            /\ DeclaredUpstream(GivenTasks[i])
                    # InferredUpstream(GivenTasks[i]["source"].v)
            /\ DependenciesOf(TaskName(GivenTasks[i])) # DeclaredUpstream(GivenTasks[i])

-----------------------------------------------------------------------------
(* Specifications *)

EdIdle ==
    /\ module = CHOOSE m \in Layouts : TRUE
    /\ fs_source = <<>>
    /\ fs_tmp = NoTmp
    /\ s_state = [s \in SessionIds |-> "none"]
    /\ s_alive = [s \in SessionIds |-> FALSE]
    /\ s_limits = [s \in SessionIds |-> <<0, 0>>]
    /\ s_body_start = [s \in SessionIds |-> NoneInt]
    /\ s_snapshot = [s \in SessionIds |-> NoneText]
    /\ s_error = [s \in SessionIds |-> ""]
    /\ s_wrote = [s \in SessionIds |-> FALSE]
    /\ nb_edits = 0
    /\ ext_modified = FALSE

ClsNext ==
    \/ ResolveInDagBuilder
    \/ ResolveInTaskBuilder

InitEditor == EdInit /\ ClsIdle /\ TdIdle /\ DgIdle

InitClass == ClsInit /\ EdIdle /\ TdIdle /\ DgIdle

InitTask == TdInit /\ EdIdle /\ ClsIdle /\ DgIdle

InitDagBuilder == DgInit /\ EdIdle /\ ClsIdle /\ TdIdle

InitTwoSessions ==
    /\ module \in TwoLayouts
    /\ fs_source = Render(module)
    /\ fs_tmp = NoTmp
    /\ s_state = [s \in TwoSessionIds |-> "none"]
    /\ s_alive = [s \in TwoSessionIds |-> FALSE]
    /\ s_limits = [s \in TwoSessionIds |-> <<0, 0>>]
    /\ s_body_start = [s \in TwoSessionIds |-> NoneInt]
    /\ s_snapshot = [s \in TwoSessionIds |-> NoneText]
    /\ s_error = [s \in TwoSessionIds |-> ""]
    /\ s_wrote = [s \in TwoSessionIds |-> FALSE]
    /\ nb_edits = 0
    /\ ext_modified = FALSE
    /\ ClsIdle
    /\ TdIdle
    /\ DgIdle

\* the editor
SpecEditor == InitEditor /\ [][EdNext]_vars

\* step-class resolution
SpecClass == InitClass /\ [][ClsNext]_vars

\* the task builder
SpecTask == InitTask /\ [][TdNext]_vars

\* the DAG builder
SpecDag == InitDagBuilder /\ [][DgNext]_vars

\* two editor sessions on the two callables of one source file
SpecTwoSessions == InitTwoSessions /\ [][TwoNext]_vars

-----------------------------------------------------------------------------
(* Properties of the editor *)

\* the text of the source file as long as no session has written it
UnwrittenSource ==
    Render(module) \o (IF ext_modified THEN ExtLine ELSE <<>>)

\* the session ended normally without the user having edited the notebook
UneditedExit(s) == s_state[s] = "exited" /\ nb_edits = 0

\* the lines of the original file before the definition of the callable
LinesBefore == TakeLines(SplitLines(Render(module)), getsourcelines(module).start - 1)

\* the lines of the original file after the last line of the callable
LinesAfter ==
    LET g == getsourcelines(module)
    IN  DropLines(SplitLines(Render(module)), g.start - 1 + Len(g.lines))

\* C1: a session whose source file changed between entry and exit fails with
\* the corruption error (ValueError), has not written the source file, and
\* the temporary notebook still exists afterwards, also after the session
\* object has been discarded.
C1_CorruptedExitKeepsNotebook ==
    \A s \in SessionIds :
        (s_state[s] = "failed" /\ s_error[s] = "ValueError")
            => (~s_wrote[s] /\ fs_source = UnwrittenSource /\ fs_tmp.exists)

\* C2: after the normal exit of an unedited session the lines before the
\* definition and the lines after the callable's last line are those of the
\* original file, in order, and the file ends with a newline iff the
\* original did.
C2_UneditedExitPreservesFrame ==
    \A s \in SessionIds :
        UneditedExit(s) =>
            LET new == SplitLines(fs_source)
            IN  /\ Len(new) >= Len(LinesBefore) + Len(LinesAfter)
                /\ TakeLines(new, Len(LinesBefore)) = LinesBefore
                /\ DropLines(new, Len(new) - Len(LinesAfter)) = LinesAfter
                /\ EndsWithNewline(fs_source) <=> EndsWithNewline(Render(module))

\* C3: a session that was entered and then discarded without __exit__ has
\* not written the source file, which holds its pre-session text (plus what
\* another program did to it), and the temporary notebook is gone.
C3_AbandonedSessionLeavesSource ==
    \A s \in SessionIds :
        (s_state[s] = "entered" /\ ~s_alive[s])
            => (~s_wrote[s] /\ fs_source = UnwrittenSource /\ ~fs_tmp.exists)

\* C3 witness: a session abandoned after the user edited the notebook.
C3_Witness ==
    \E s \in SessionIds :
        s_state[s] = "entered" /\ ~s_alive[s] /\ nb_edits > 0 /\ ~ext_modified

\* the lines _overwrite_from_nb put between the header and the footer:
\* those of the written text that follow the new imports and the header and
\* precede the footer
SplicedLines(nb, old, new, limits, body_start) ==
    LET imports_new == get_imports_new_source(nb)
        n_imports == IF imports_new = NoneText THEN 0
                     ELSE Len(SplitLines(imports_new))
        n_header == limits[1] + body_start
        rest == DropLines(SplitLines(old), limits[2])
        n_footer == IF rest = <<>> THEN 0 ELSE Len(rest) + 1
        lines == SplitLines(new)
    IN  SubSeq(lines, n_imports + n_header + 1, Len(lines) - n_footer)

\* a cell's lines, each line that is not blank moved right by four spaces
Reindented(source) ==
    LET ls == SplitLines(source)
    IN  [i \in 1..Len(ls) |->
            IF ls[i] = <<>> THEN <<>> ELSE <<" ", " ", " ", " ">> \o ls[i]]

\* the lines of the cells of nb that Keep selects, in document order
KeptLines(nb, Keep(_)) ==
    LET kept == SelectIdx(Len(nb), {i \in 1..Len(nb) : Keep(nb[i])})
    IN  Concat([k \in 1..Len(kept) |-> Reindented(nb[kept[k]].source)])

NoTmpTag(c) == \A t \in {"injected-parameters", "imports", "imports-new"} : t \notin c.tags

\* kept unless the source begins with a comment line
KeepUnlessComment(c) ==
    c.cell_type = "code" /\ NoTmpTag(c) /\ ~StartsWithHash(c.source)

\* kept unless the source begins with "#" directly followed by a line break
KeepUnlessBareHash(c) ==
    /\ c.cell_type = "code"
    /\ NoTmpTag(c)
    /\ ~(Len(c.source) >= 2 /\ c.source[1] = "#" /\ c.source[2] = NL)

NormalExitStep(s) == s_state[s] = "entered" /\ s_state'[s] = "exited"

SplicesExactly(Keep(_)) ==
    \A s \in SessionIds :
        NormalExitStep(s) =>
            SplicedLines(fs_tmp.cells, fs_source, fs_source', s_limits[s],
                         s_body_start[s])
                = KeptLines(fs_tmp.cells, Keep)

\* C8 as claimed: on normal exit the spliced body holds exactly the code
\* cells without temporary tags whose source does not begin with a comment
\* line, in document order, re-indented by four spaces.
C8_KeepsUnlessCommentFirst == [][SplicesExactly(KeepUnlessComment)]_vars

\* C8 amended: on normal exit the spliced body holds exactly the code cells
\* without temporary tags whose source does not begin with "#" directly
\* followed by a line break, in document order, each non-blank line
\* re-indented by four spaces.
C8_KeepsUnlessBareHashFirst == [][SplicesExactly(KeepUnlessBareHash)]_vars

\* C8 witness: a session exited normally after the user edited the notebook,
\* and the written body holds a kept cell whose first line is a comment.
C8_Witness ==
    \E s \in SessionIds :
        /\ s_state[s] = "exited"
        /\ nb_edits > 0
        /\ \E i \in 1..Len(SplitLines(fs_source)) :
              SplitLines(fs_source)[i] = <<" ", " ", " ", " ", "#">>

-----------------------------------------------------------------------------
(* Two sessions on one source file *)

\* C12: while a session is open (entered, not yet exited), its temporary
\* document exists and holds its own cells: no other session object of the
\* same source file overwrites or deletes it, whether that object is
\* entered or only constructed and discarded
C12_OpenSessionKeepsItsNotebook ==
    \A s \in TwoSessionIds :
        Open(s) => /\ fs_tmp.exists
                   /\ fs_tmp.cells = to_nb(ModuleOf(s))

\* the two layouts of a file describe the same text, and no object is
\* constructed or entered on a file another session has rewritten
SameFileForBoth ==
    /\ Render(SecondCallable(module)) = Render(module)
    /\ \A s \in TwoSessionIds :
            s_state[s] \in {"none", "constructed"} => fs_source = Render(module)

====
